---- MODULE Spec2Model ----
(***************************************************************************)
(* A model of the Scheduler crate (src/src/schedulers.rs,                  *)
(* src/src/repetitions.rs): the repetition rules and their date rollover,  *)
(* the reading handler's two passes over a lane, and the blocking run loop *)
(* BlockingScheduler::start.                                               *)
(*                                                                         *)
(* Time.  A DateTime<FixedOffset> is a record [utc, off, frac]: the whole  *)
(* hours since 1970-01-01T00:00Z, the offset east of UTC in hours, and the *)
(* rest of the instant within its hour, in ticks of 1/SubPerMs of a        *)
(* millisecond (chrono keeps nanoseconds).  The clock of the scheduler and *)
(* the due dates given to it are whole hours; the date functions are also  *)
(* applied, on their own, to instants between two milliseconds.            *)
(***************************************************************************)
EXTENDS Integers, Sequences, FiniteSets, TLC

(***************************************************************************)
(* Bounds of the model.                                                    *)
(***************************************************************************)
\* longest lane the caller supplies
MaxTasks == 3
\* longest delay, in hours, before a reading of the clock
MaxDelay == 1
\* callback invocations explored in one behaviour
MaxFires == 3
\* calls of start explored in one behaviour
MaxRuns == 2
\* largest Finished(n) given to is_finished_on_update on its own
MaxCount == 14
\* ticks of the model in one millisecond
SubPerMs == 2

(***************************************************************************)
(* Rust integer arithmetic.                                                *)
(***************************************************************************)
\* a % b of Rust on signed integers: truncated, the sign of the dividend
rem(a, b) ==
    LET ab == IF b < 0 THEN -b ELSE b
    IN  IF a >= 0 THEN a % ab ELSE -((-a) % ab)

(***************************************************************************)
(* chrono's proleptic Gregorian calendar, as used through Datelike,        *)
(* Timelike and TimeZone::ymd(..).and_hms(..).                             *)
(***************************************************************************)
is_leap_year(y) == (y % 4 = 0 /\ y % 100 # 0) \/ y % 400 = 0

days_in_month(y, m) ==
    IF m \in {4, 6, 9, 11} THEN 30
    ELSE IF m = 2 THEN (IF is_leap_year(y) THEN 29 ELSE 28)
    ELSE 31

\* days from 1970-01-01 to the civil date y-m-d
days_from_civil(y, m, d) ==
    LET yy  == IF m <= 2 THEN y - 1 ELSE y
        era == yy \div 400
        yoe == yy - era * 400
        mp  == IF m > 2 THEN m - 3 ELSE m + 9
        doy == (153 * mp + 2) \div 5 + d - 1
        doe == yoe * 365 + yoe \div 4 - yoe \div 100 + doy
    IN  era * 146097 + doe - 719468

\* the civil date [year, month, day] of the day z days after 1970-01-01, computed
\* in stages: the era of 400 years, the day and the year of the era, the day of
\* the year counted from 1 March, the month counted from March
civil_m(y, m, d) ==
    [year |-> y + (IF m <= 2 THEN 1 ELSE 0), month |-> m, day |-> d]
civil_mp(y, doy, mp) ==
    civil_m(y, IF mp < 10 THEN mp + 3 ELSE mp - 9, doy - (153 * mp + 2) \div 5 + 1)
civil_doy(y, doy) == civil_mp(y, doy, (5 * doy + 2) \div 153)
civil_yoe(era, doe, yoe) ==
    civil_doy(yoe + era * 400, doe - (365 * yoe + yoe \div 4 - yoe \div 100))
civil_doe(era, doe) ==
    civil_yoe(era, doe,
              (doe - doe \div 1460 + doe \div 36524 - doe \div 146096) \div 365)
civil_from_days(z) ==
    civil_doe((z + 719468) \div 146097, (z + 719468) % 146097)

\* chrono's units: milliseconds in an hour and in a second, and their ticks
MsPerHour == 3600 * 1000
MsPerSecond == 1000
TicksPerHour == MsPerHour * SubPerMs
TicksPerSecond == MsPerSecond * SubPerMs

\* a DateTime<FixedOffset> on a whole hour
DateTime(utc, off) == [utc |-> utc, off |-> off, frac |-> 0]

\* a < b of DateTime: the instants are compared, the offsets are not
before(a, b) == a.utc < b.utc \/ (a.utc = b.utc /\ a.frac < b.frac)

\* an i64 count of milliseconds, kept as [h, ms] for h * MsPerHour + ms, with h
\* and ms of the same sign and ms within an hour: the counts themselves exceed
\* the 32 bits of TLC's integers
Milliseconds(h, ms) == [h |-> h, ms |-> ms]

\* a / b of Rust on signed integers, b > 0: rounded towards zero
div(a, b) == IF a >= 0 THEN a \div b ELSE -((-a) \div b)

\* h hours and t ticks, written with h and t of the same sign
same_sign(h, t) ==
    IF h > 0 /\ t < 0 THEN [h |-> h - 1, t |-> t + TicksPerHour]
    ELSE IF h < 0 /\ t > 0 THEN [h |-> h + 1, t |-> t - TicksPerHour]
    ELSE [h |-> h, t |-> t]

\* (a - b).num_milliseconds(): the whole milliseconds of the difference, rounded
\* towards zero
num_milliseconds(a, b) ==
    Milliseconds(same_sign(a.utc - b.utc, a.frac - b.frac).h,
                 div(same_sign(a.utc - b.utc, a.frac - b.frac).t, SubPerMs))

\* x % gap.num_milliseconds() for a gap of g whole hours: as
\* x = (x.h / g) * g * MsPerHour + (x.h % g) * MsPerHour + x.ms, the remainder is
\* x.h % g hours and x.ms milliseconds
rem_milliseconds(x, g) == Milliseconds(rem(x.h, g), x.ms)

\* dt + Duration::milliseconds(x): the offset of dt is kept
plus_milliseconds(dt, x) ==
    [utc  |-> dt.utc + x.h + (dt.frac + x.ms * SubPerMs) \div TicksPerHour,
     off  |-> dt.off,
     frac |-> (dt.frac + x.ms * SubPerMs) % TicksPerHour]

\* Datelike / Timelike: the fields of the local (offset) time of a date
year(dt)  == civil_from_days((dt.utc + dt.off) \div 24).year
month(dt) == civil_from_days((dt.utc + dt.off) \div 24).month
day(dt)   == civil_from_days((dt.utc + dt.off) \div 24).day
hour(dt)  == (dt.utc + dt.off) % 24
\* minute() and second() together: the whole seconds within the hour, in ticks
minute_second(dt) == (dt.frac \div TicksPerSecond) * TicksPerSecond

\* FixedOffset::east(off).ymd(y, m, d).and_hms(h, minute, second): ymd panics on
\* a date that does not exist; the result has no fraction of a second
ymd_and_hms(off, y, m, d, h, ms) ==
    IF m \in 1..12 /\ d >= 1 /\ d <= days_in_month(y, m)
    THEN [ok |-> TRUE,
          date |-> [utc  |-> days_from_civil(y, m, d) * 24 + h - off,
                    off  |-> off,
                    frac |-> ms]]
    ELSE [ok |-> FALSE, date |-> DateTime(0, off)]

(***************************************************************************)
(* RepetitionCount and RepetitionType (repetitions.rs).                    *)
(* A u64 is kept modulo 2^64 by its representative nearest to 0: the value *)
(* 2^64 - k is written -k, so that decrementing is n - 1 at every value    *)
(* and the unsigned test "<= 0" is "= 0".                                  *)
(***************************************************************************)
Infinite    == [tag |-> "Infinite", n |-> 0]
Finished(n) == [tag |-> "Finished", n |-> n]

Once             == [kind |-> "Once",     count |-> Infinite, gap |-> 0]
Weekly(count)    == [kind |-> "Weekly",   count |-> count,    gap |-> 0]
Monthly(count)   == [kind |-> "Monthly",  count |-> count,    gap |-> 0]
Yearly(count)    == [kind |-> "Yearly",   count |-> count,    gap |-> 0]
ConstGap(g, cnt) == [kind |-> "ConstGap", count |-> cnt,      gap |-> g]
Custom           == [kind |-> "Custom",   count |-> Infinite, gap |-> 0]

\* is_finished_on_update with the test made before the decrement: exhausted one
\* call too late
is_finished_on_update_late(count, checks) ==
    IF count.tag = "Infinite"
    THEN [panic |-> FALSE, count |-> count, finished |-> FALSE]
    ELSE IF count.n = 0 /\ checks
         THEN [panic |-> TRUE, count |-> count, finished |-> FALSE]
         ELSE [panic |-> FALSE, count |-> Finished(count.n - 1),
               finished |-> (count.n = 0)]

\* RepetitionCount::is_finished_on_update: the count after the call, the bool it
\* returns, and whether "*count -= 1" aborted: on Finished(0) a build with
\* overflow checks panics and a build without them wraps to 2^64 - 1
is_finished_on_update(count, checks) ==
    IF count.tag = "Infinite"
    THEN [panic |-> FALSE, count |-> count, finished |-> FALSE]
    ELSE IF count.n = 0 /\ checks
         THEN [panic |-> TRUE, count |-> count, finished |-> FALSE]
         ELSE [panic |-> FALSE, count |-> Finished(count.n - 1),
               finished |-> (count.n - 1 = 0)]

\* RepetitionHelpers::update_const_gap, the gap a whole number of hours, positive
\* or not: origin + (gap - ms(diff.num_milliseconds() % gap.num_milliseconds()));
\* the sum keeps the offset of origin; a gap of zero milliseconds aborts the
\* division, a negative gap divides as its absolute value does
update_const_gap(origin, date, gap) ==
    LET r == rem_milliseconds(num_milliseconds(origin, date), gap)
    IN  IF gap = 0
        THEN [ok |-> FALSE, date |-> date]
        ELSE [ok |-> TRUE,
              date |-> plus_milliseconds(origin, Milliseconds(gap - r.h, -r.ms))]

\* RepetitionHelpers::update_weekly: a constant gap of Duration::days(7)
update_weekly(origin, date) == update_const_gap(origin, date, 7 * 24)

\* RepetitionHelpers::update_monthly
update_monthly(origin, date) ==
    LET updated_month == IF day(origin) > day(date)
                         THEN (month(origin) + 1) % 12
                         ELSE month(origin)
        updated_year  == IF updated_month = 1 THEN year(origin) + 1 ELSE year(origin)
    IN  ymd_and_hms(2, updated_year, updated_month, day(date), hour(date),
                    minute_second(date))

\* RepetitionHelpers::update_yearly
update_yearly(origin, date) ==
    IF month(date) # 2 /\ day(date) # 29
    THEN ymd_and_hms(2, year(origin) + 1, month(date), day(date), hour(date),
                     minute_second(date))
    ELSE ymd_and_hms(2, rem(year(origin) - year(date), 4) + year(origin),
                     month(date), day(date), hour(date), minute_second(date))

\* a date one day after dt, with the offset of dt
one_day_after(dt) == plus_milliseconds(dt, Milliseconds(24, 0))

\* CustomRepetition::update_date: NoCustomRepetition panics; a handler of the
\* caller is any function of the origin and of the current date: "Never" returns
\* None, "EveryDay" the day after the current date, "Tomorrow" the day after the
\* origin, and any other handler the answer chosen for the task
update_date(handler, answer, origin, current_date) ==
    CASE handler = "NoCustomRepetition" ->
             [panic |-> TRUE, some |-> FALSE, date |-> current_date]
      [] handler = "Never" ->
             [panic |-> FALSE, some |-> FALSE, date |-> current_date]
      [] handler = "EveryDay" ->
             [panic |-> FALSE, some |-> TRUE, date |-> one_day_after(current_date)]
      [] handler = "Tomorrow" ->
             [panic |-> FALSE, some |-> TRUE, date |-> one_day_after(origin)]
      [] OTHER ->
             [panic |-> FALSE, some |-> answer.some, date |-> answer.date]

(***************************************************************************)
(* ScheduledTask and SchedulerReadingHandler (schedulers.rs).              *)
(***************************************************************************)
ScheduledTask(task, date, repetition) ==
    [task |-> task, date |-> date, repetition |-> repetition, sleep_type |-> "Native"]

\* Ord for ScheduledTask: the dates alone, compared as instants
cmp(a, b) ==
    IF before(a.date, b.date) THEN "Less"
    ELSE IF before(b.date, a.date) THEN "Greater"
    ELSE "Equal"

\* one insertion of a sort that is not stable: t goes before the elements Equal to it
RECURSIVE insert_sorted_unstable(_, _)
insert_sorted_unstable(s, t) ==
    IF s = <<>> THEN <<t>>
    ELSE IF cmp(s[Len(s)], t) # "Less"
         THEN Append(insert_sorted_unstable(SubSeq(s, 1, Len(s) - 1), t), s[Len(s)])
         ELSE Append(s, t)

\* one insertion of the stable sort: t goes after every element not Greater than it
RECURSIVE insert_sorted(_, _)
insert_sorted(s, t) ==
    IF s = <<>> THEN <<t>>
    ELSE IF cmp(s[Len(s)], t) = "Greater"
         THEN Append(insert_sorted(SubSeq(s, 1, Len(s) - 1), t), s[Len(s)])
         ELSE Append(s, t)

\* Vec::sort: stable, ascending by cmp
RECURSIVE sort(_)
sort(s) ==
    IF s = <<>> THEN <<>>
    ELSE insert_sorted(sort(SubSeq(s, 1, Len(s) - 1)), s[Len(s)])

\* the state of a reading handler during a pass: the lane's vector, the tasks
\* removed so far, and whether the pass has panicked
Handler(cur, removed, panic) == [cur |-> cur, removed |-> removed, panic |-> panic]

\* SchedulerReadingHandler::get_current_task: the task at index 0, if any
get_current_task(cur) == IF cur = <<>> THEN <<>> ELSE <<cur[1]>>

\* SchedulerReadingHandler::remove_task at the 1-based position k
remove_task(st, k) ==
    Handler(SubSeq(st.cur, 1, k - 1) \o SubSeq(st.cur, k + 1, Len(st.cur)),
            Append(st.removed, st.cur[k]), st.panic)

\* "last" of both passes: iter().position of the first task with not (now > date),
\* the length when there is none
RECURSIVE position_not_outdated(_, _)
position_not_outdated(cur, now) ==
    IF cur = <<>> THEN 0
    ELSE IF before(cur[1].date, now)
         THEN 1 + position_not_outdated(Tail(cur), now)
         ELSE 0

\* the task at position k with its date (and count) replaced
with_date(st, k, date) ==
    Handler([st.cur EXCEPT ![k].date = date], st.removed, st.panic)
with_count(st, k, count) ==
    Handler([st.cur EXCEPT ![k].repetition.count = count], st.removed, st.panic)
panicked(st) == Handler(st.cur, st.removed, TRUE)

\* the date a recurring rule gives the task at position k
rollover(st, k, now) ==
    LET task == st.cur[k]
    IN  CASE task.repetition.kind = "Weekly"   -> update_weekly(now, task.date)
          [] task.repetition.kind = "Monthly"  -> update_monthly(now, task.date)
          [] task.repetition.kind = "Yearly"   -> update_yearly(now, task.date)
          [] task.repetition.kind = "ConstGap" ->
                 update_const_gap(now, task.date, task.repetition.gap)

\* the Custom arm with the two arguments of update_date exchanged
custom_arm_exchanged(st, k, now, handler, answers) ==
    LET task == st.cur[k]
        r    == update_date(handler, answers[task.task], task.date, now)
    IN  IF r.panic THEN panicked(st)
        ELSE IF r.some THEN with_date(st, k, r.date)
        ELSE remove_task(st, k)

\* the Custom arm of both passes
custom_arm(st, k, now, handler, answers) ==
    LET task == st.cur[k]
        r    == update_date(handler, answers[task.task], now, task.date)
    IN  IF r.panic THEN panicked(st)
        ELSE IF r.some THEN with_date(st, k, r.date)
        ELSE remove_task(st, k)

\* the body of "for i in 0..last" of update_outdated_tasks, from index i on;
\* current_tasks[i] panics when i is out of bounds
RECURSIVE outdated_loop(_, _, _, _, _, _)
outdated_loop(st, i, last, now, handler, answers) ==
    IF i >= last \/ st.panic THEN st
    ELSE IF i + 1 > Len(st.cur) THEN panicked(st)
    ELSE LET kind == st.cur[i + 1].repetition.kind
             next ==
               CASE kind = "Once"   -> remove_task(st, i + 1)
                 [] kind = "Custom" -> custom_arm(st, i + 1, now, handler, answers)
                 [] OTHER ->
                      LET r == rollover(st, i + 1, now)
                      IN  IF r.ok THEN with_date(st, i + 1, r.date) ELSE panicked(st)
         IN  outdated_loop(next, i + 1, last, now, handler, answers)

\* the loop of update_outdated_tasks_and_repetition_count; "break" ends it after
\* the removal of a task whose count is finished
RECURSIVE consume_loop(_, _, _, _, _, _, _)
consume_loop(st, i, last, now, handler, answers, checks) ==
    IF i >= last \/ st.panic THEN st
    ELSE IF i + 1 > Len(st.cur) THEN panicked(st)
    ELSE LET kind == st.cur[i + 1].repetition.kind
         IN  CASE kind = "Once" ->
                    consume_loop(remove_task(st, i + 1), i + 1, last, now,
                                 handler, answers, checks)
               [] kind = "Custom" ->
                    consume_loop(custom_arm(st, i + 1, now, handler, answers),
                                 i + 1, last, now, handler, answers, checks)
               [] OTHER ->
                    LET c  == is_finished_on_update(st.cur[i + 1].repetition.count, checks)
                        s1 == with_count(st, i + 1, c.count)
                        r  == rollover(s1, i + 1, now)
                    IN  IF c.panic THEN panicked(st)
                        ELSE IF c.finished THEN remove_task(s1, i + 1)
                        ELSE IF r.ok
                             THEN consume_loop(with_date(s1, i + 1, r.date), i + 1,
                                               last, now, handler, answers, checks)
                             ELSE panicked(s1)

\* update_outdated_tasks with the loop of the fire pass: the counts are consumed
update_outdated_tasks_consuming(cur, now, handler, answers) ==
    consume_loop(Handler(cur, <<>>, FALSE), 0,
                 position_not_outdated(cur, now), now, handler, answers, TRUE)

\* SchedulerReadingHandler::update_outdated_tasks (the catch-up pass)
update_outdated_tasks(cur, now, handler, answers) ==
    outdated_loop(Handler(cur, <<>>, FALSE), 0,
                  position_not_outdated(cur, now), now, handler, answers)

\* SchedulerReadingHandler::update_outdated_tasks_and_repetition_count (the fire
\* pass): the loop over the outdated prefix, then current_tasks.sort()
update_outdated_tasks_and_repetition_count(st0, now, handler, answers, checks) ==
    LET st == consume_loop(st0, 0, position_not_outdated(st0.cur, now), now,
                           handler, answers, checks)
    IN  IF st.panic THEN st ELSE Handler(sort(st.cur), st.removed, FALSE)

(***************************************************************************)
(* BlockingScheduler (schedulers.rs): construction.                        *)
(***************************************************************************)
\* the function with no key
EmptyMap == [k \in {} |-> <<>>]

\* format_removed_tasks with insert in place of entry(key).or_insert: the supplied
\* entry of a lane is overwritten
format_removed_tasks_overwrite(scheduled, removed) ==
    [k \in (DOMAIN removed) \cup (DOMAIN scheduled) |->
        IF k \in DOMAIN scheduled THEN <<>> ELSE removed[k]]

\* SchedulerHelper::format_removed_tasks: entry(key).or_insert(Vec::new()) for
\* every key of scheduled_tasks
format_removed_tasks(scheduled, removed) ==
    [k \in (DOMAIN removed) \cup (DOMAIN scheduled) |->
        IF k \in DOMAIN removed THEN removed[k] ELSE <<>>]

\* BlockingScheduler::new
new(scheduled, removed) ==
    [scheduled_tasks   |-> scheduled,
     removed_tasks     |-> format_removed_tasks(scheduled, removed),
     custom_repetition |-> "NoCustomRepetition"]

(***************************************************************************)
(* The inputs of the model.                                                *)
(***************************************************************************)
\* the clock when the scheduler is built: 2024-03-15T08:00Z
T0 == days_from_civil(2024, 3, 15) * 24 + 8

\* a due date h hours from T0, written with the offset +02:00
Due(h) == DateTime(T0 + h, 2)

\* the tasks a caller may put in lane "a": a rule and a due date.  Every rule
\* occurs with a due date before T0 and with one at or after T0
Pool ==
    { [r |-> Once,                     d |-> Due(-2)],
      [r |-> Once,                     d |-> Due(1)],
      [r |-> Once,                     d |-> Due(2)],
      [r |-> Weekly(Finished(2)),      d |-> Due(-8 * 24)],
      [r |-> Weekly(Finished(2)),      d |-> Due(0)],
      [r |-> Weekly(Infinite),         d |-> Due(1)],
      [r |-> Monthly(Finished(2)),     d |-> Due(-24)],
      [r |-> Monthly(Finished(2)),     d |-> Due(1)],
      [r |-> Yearly(Finished(2)),      d |-> Due(-24)],
      [r |-> Yearly(Finished(2)),      d |-> Due(1)],
      [r |-> ConstGap(3, Finished(2)), d |-> Due(-2)],
      [r |-> ConstGap(3, Finished(1)), d |-> Due(1)],
      [r |-> Custom,                   d |-> Due(1)] }

\* the tasks of the lanes of three tasks and more
CorePool ==
    { [r |-> Once,                     d |-> Due(-2)],
      [r |-> Once,                     d |-> Due(1)],
      [r |-> Weekly(Finished(2)),      d |-> Due(-8 * 24)],
      [r |-> Weekly(Finished(2)),      d |-> Due(0)] }

\* the lanes of length n over a pool, the payload of a task being its position
LanesOfLen(pool, n) ==
    { [i \in 1..n |-> ScheduledTask(i, f[i].d, f[i].r)] : f \in [1..n -> pool] }
LaneContents ==
    LanesOfLen(Pool, 0) \cup LanesOfLen(Pool, 1) \cup LanesOfLen(Pool, 2)
        \cup UNION { LanesOfLen(CorePool, n) : n \in 3..MaxTasks }

\* lane "b" is the same in every behaviour
LaneB == << ScheduledTask(0, Due(1), Once) >>

\* a task that left a lane before the scheduler was built
OldTask == ScheduledTask(9, Due(-24), Once)

\* the history mappings a caller may supply: none, or one that has lane "a", lacks
\* lane "b" and has a key that is no lane
SuppliedHistories ==
    { EmptyMap, [k \in {"a", "z"} |-> IF k = "a" THEN <<OldTask>> ELSE <<>>] }

\* the lane names start is called with
Modes == {"a", "b", "missing"}

\* the answers of the handler "Handler" for the tasks of a pass: None, or the day
\* after now; the other handlers are functions of their arguments alone
Answers(handler, now) ==
    IF handler = "Handler"
    THEN [0..MaxTasks -> { [some |-> FALSE, date |-> now],
                           [some |-> TRUE, date |-> DateTime(now.utc + 24, now.off)] }]
    ELSE { [i \in 0..MaxTasks |-> [some |-> FALSE, date |-> now]] }

\* Local::now().into(): the clock with the offset of the local time zone
LocalOffset == 2
Local_now(t) == DateTime(t, LocalOffset)

(***************************************************************************)
(* The state.                                                              *)
(***************************************************************************)
VARIABLES
    scheduled_tasks,    \* BlockingScheduler.scheduled_tasks: lane -> vector of tasks
    removed_tasks,      \* BlockingScheduler.removed_tasks: lane -> vector of tasks
    custom_repetition,  \* BlockingScheduler.custom_repetition
    overflow_checks,    \* whether the build checks integer overflow
    clock,              \* the wall clock; after a pass, the instant it read as now
    pc,                 \* where start is: "idle", "loop", "fired", "panicked"
    mode,               \* the lane start was called with
    rh_removed,         \* reading_handler.removed_tasks
    result,             \* what the last call of start returned
    fired,              \* the callback invocations of the current call of start
    runs,               \* the calls of start made so far
    start_tasks,        \* scheduled_tasks when the current call of start began
    start_removed,      \* removed_tasks when the current call of start began
    start_now,          \* the instant the catch-up pass of the current call read
    supplied,           \* the history mapping given to new
    count,              \* a RepetitionCount that is_finished_on_update is called on
    count0,             \* that count before the first call
    returns,            \* what the calls of is_finished_on_update returned
    origin,             \* the origin a date function is called with: the present
    date,               \* the date it is called on, which it updates in place
    gap,                \* the gap update_const_gap is called with, in hours
    date0,              \* that date before the call
    updated,            \* the function that was called, and whether it returned
    workers,            \* the threads of ParallelScheduler: each owns a clone
    thread_handlers,    \* ParallelScheduler.thread_handlers: the workers they join
    scope_thread_handlers,  \* ParallelScheduler.scope_thread_handlers
    caller_pc,          \* where the caller of ParallelScheduler is
    returned,           \* what the calls of ParallelScheduler have returned
    joined,             \* what JoinHandle::join has returned, by worker
    persisted           \* the serialized scheduler, and the scheduler it was written from

config_vars == << custom_repetition, overflow_checks, supplied >>
serde_vars  == << persisted >>
count_vars  == << count, count0, returns >>
start_vars  == << start_tasks, start_removed, start_now >>
date_vars   == << origin, date, gap, date0, updated >>
parallel_vars == << workers, thread_handlers, scope_thread_handlers, caller_pc,
                    returned, joined >>
sched_vars  == << scheduled_tasks, removed_tasks, clock, mode, rh_removed, result,
                  fired, runs >>

vars == << scheduled_tasks, removed_tasks, custom_repetition, overflow_checks, clock,
           pc, mode, rh_removed, result, fired, runs, start_tasks,
           start_removed, start_now, supplied, count, count0, returns, origin,
           date, gap, date0, updated, workers, thread_handlers,
           scope_thread_handlers, caller_pc, returned, joined, persisted >>

\* the scheduler new builds from the lanes and the history a caller supplies
InitScheduler(lanes, history) ==
    LET s == new(lanes, history)
    IN  /\ scheduled_tasks = s.scheduled_tasks
        /\ removed_tasks = s.removed_tasks
        /\ custom_repetition = s.custom_repetition
        /\ start_tasks = s.scheduled_tasks
        /\ start_removed = s.removed_tasks
        /\ supplied = history
        /\ clock = T0
        /\ pc = "idle"
        /\ mode = ""
        /\ rh_removed = <<>>
        /\ start_now = Local_now(T0)
        /\ result = "none"
        /\ fired = <<>>
        /\ runs = 0

\* no call of is_finished_on_update on its own
NoCount ==
    /\ count = Infinite
    /\ count0 = Infinite
    /\ returns = <<>>

\* no call of a date function on its own
NoDate ==
    /\ origin = Local_now(T0)
    /\ date = Local_now(T0)
    /\ date0 = Local_now(T0)
    /\ gap = 0
    /\ updated = [by |-> "none", ok |-> TRUE]

\* no scheduler has been serialized
NoSerde ==
    persisted = [document |-> "none", of |-> "none", loaded |-> FALSE]

\* no ParallelScheduler
NoParallel ==
    /\ workers = <<>>
    /\ thread_handlers = <<>>
    /\ scope_thread_handlers = <<>>
    /\ caller_pc = "ready"
    /\ returned = <<>>
    /\ joined = <<>>

Init ==
    /\ \E la \in LaneContents, h \in SuppliedHistories :
          InitScheduler([k \in {"a", "b"} |-> IF k = "a" THEN la ELSE LaneB], h)
    /\ overflow_checks = TRUE
    /\ NoCount
    /\ NoDate
    /\ NoParallel
    /\ NoSerde

(***************************************************************************)
(* BlockingScheduler::start.                                               *)
(***************************************************************************)
\* start with entry(mode).or_default() in place of get_mut(mode): an unknown mode
\* becomes an empty lane that is run at once
start_unknown_creates_lane(m) ==
    /\ pc = "idle"
    /\ runs < MaxRuns
    /\ m \notin DOMAIN scheduled_tasks
    /\ runs' = runs + 1
    /\ mode' = m
    /\ result' = "Ok"
    /\ fired' = <<>>
    /\ scheduled_tasks' = [k \in (DOMAIN scheduled_tasks) \cup {m} |->
                              IF k = m THEN <<>> ELSE scheduled_tasks[k]]
    /\ start_tasks' = scheduled_tasks
    /\ start_removed' = removed_tasks
    /\ start_now' = Local_now(clock)
    /\ UNCHANGED << removed_tasks, clock, pc, rh_removed >>
    /\ UNCHANGED << parallel_vars, date_vars, config_vars, serde_vars, count_vars >>

\* lines 257-263 with a mode that is no key of scheduled_tasks: get_mut is None
\* and "?" returns the error
start_unknown(m) ==
    /\ pc = "idle"
    /\ runs < MaxRuns
    /\ m \notin DOMAIN scheduled_tasks
    /\ runs' = runs + 1
    /\ mode' = m
    /\ result' = "UnknownLane"
    /\ fired' = <<>>
    /\ start_tasks' = scheduled_tasks
    /\ start_removed' = removed_tasks
    /\ start_now' = Local_now(clock)
    /\ UNCHANGED << scheduled_tasks, removed_tasks, clock, pc, rh_removed >>
    /\ UNCHANGED << parallel_vars, date_vars, config_vars, serde_vars, count_vars >>

\* start with the catch-up pass run over every lane of the scheduler, the lane
\* asked for and the others
start_catch_up_every_lane(m) ==
    /\ pc = "idle"
    /\ runs < MaxRuns
    /\ m \in DOMAIN scheduled_tasks
    /\ \E d \in 0..MaxDelay :
       \E answers \in Answers(custom_repetition, Local_now(clock + d)) :
        LET st == update_outdated_tasks(scheduled_tasks[m], Local_now(clock + d),
                                        custom_repetition, answers)
        IN  /\ clock' = clock + d
            /\ start_now' = Local_now(clock + d)
            /\ scheduled_tasks' =
                  [k \in DOMAIN scheduled_tasks |->
                      update_outdated_tasks(scheduled_tasks[k], Local_now(clock + d),
                                            custom_repetition, answers).cur]
            /\ rh_removed' = IF st.panic THEN <<>> ELSE st.removed
            /\ pc' = IF st.panic THEN "panicked" ELSE "loop"
            /\ result' = IF st.panic THEN "panic" ELSE "none"
    /\ runs' = runs + 1
    /\ mode' = m
    /\ fired' = <<>>
    /\ start_tasks' = scheduled_tasks
    /\ start_removed' = removed_tasks
    /\ UNCHANGED << removed_tasks, parallel_vars, date_vars, config_vars, serde_vars,
                    count_vars >>

\* lines 257-264: the reading handler is built over the lane and
\* update_outdated_tasks runs once
start_catch_up(m) ==
    /\ pc = "idle"
    /\ runs < MaxRuns
    /\ m \in DOMAIN scheduled_tasks
    /\ \E d \in 0..MaxDelay :
       \E answers \in Answers(custom_repetition, Local_now(clock + d)) :
        LET st == update_outdated_tasks(scheduled_tasks[m], Local_now(clock + d),
                                        custom_repetition, answers)
        IN  /\ clock' = clock + d
            /\ start_now' = Local_now(clock + d)
            /\ scheduled_tasks' = [scheduled_tasks EXCEPT ![m] = st.cur]
            /\ rh_removed' = IF st.panic THEN <<>> ELSE st.removed
            /\ pc' = IF st.panic THEN "panicked" ELSE "loop"
            /\ result' = IF st.panic THEN "panic" ELSE "none"
    /\ runs' = runs + 1
    /\ mode' = m
    /\ fired' = <<>>
    /\ start_tasks' = scheduled_tasks
    /\ start_removed' = removed_tasks
    /\ UNCHANGED << removed_tasks, parallel_vars, date_vars, config_vars, serde_vars,
                    count_vars >>

\* lines 267-273 with the overdue head dropped from the lane before the error is
\* returned
loop_out_of_range_dropping_head ==
    /\ pc = "loop"
    /\ scheduled_tasks[mode] # <<>>
    /\ \E d \in 0..MaxDelay :
        /\ before(get_current_task(scheduled_tasks[mode])[1].date,
                  Local_now(clock + d))
        /\ clock' = clock + d
    /\ scheduled_tasks' = [scheduled_tasks EXCEPT ![mode] = Tail(@)]
    /\ pc' = "idle"
    /\ result' = "DateOutOfRange"
    /\ rh_removed' = <<>>
    /\ UNCHANGED << removed_tasks, mode, fired, runs >>
    /\ UNCHANGED << parallel_vars, date_vars, config_vars, serde_vars, count_vars,
                    start_vars >>

\* lines 267-273 when (task.date - now).to_std() fails: the difference is negative
\* and "?" returns the error at once; the reading handler is dropped
loop_out_of_range ==
    /\ pc = "loop"
    /\ scheduled_tasks[mode] # <<>>
    /\ \E d \in 0..MaxDelay :
        /\ before(get_current_task(scheduled_tasks[mode])[1].date,
                  Local_now(clock + d))
        /\ clock' = clock + d
    /\ pc' = "idle"
    /\ result' = "DateOutOfRange"
    /\ rh_removed' = <<>>
    /\ UNCHANGED << scheduled_tasks, removed_tasks, mode, fired, runs >>
    /\ UNCHANGED << parallel_vars, date_vars, config_vars, serde_vars, count_vars,
                    start_vars >>

\* lines 267-283 without the sleep: the callback is called as soon as the head has
\* been peeked and the difference found not negative
loop_fire_without_sleep ==
    /\ pc = "loop"
    /\ scheduled_tasks[mode] # <<>>
    /\ Len(fired) < MaxFires
    /\ \E d \in 0..MaxDelay :
        LET task == get_current_task(scheduled_tasks[mode])[1]
        IN  /\ ~before(task.date, Local_now(clock + d))
            /\ clock' = clock + d
            /\ fired' = Append(fired, [task |-> task.task, date |-> task.date,
                                       at |-> clock + d])
    /\ pc' = "fired"
    /\ UNCHANGED << scheduled_tasks, removed_tasks, mode, rh_removed, result, runs >>
    /\ UNCHANGED << parallel_vars, date_vars, config_vars, serde_vars, count_vars,
                    start_vars >>

\* lines 267-283: the head is peeked, the thread sleeps for task.date - now and the
\* callback is called with the head's payload; the clock then reads the first whole
\* hour that is not before the due date
loop_fire ==
    /\ pc = "loop"
    /\ scheduled_tasks[mode] # <<>>
    /\ Len(fired) < MaxFires
    /\ \E d \in 0..MaxDelay :
        LET task == get_current_task(scheduled_tasks[mode])[1]
            wake == task.date.utc + (IF task.date.frac = 0 THEN 0 ELSE 1)
        IN  /\ ~before(task.date, Local_now(clock + d))
            /\ clock' = wake
            /\ fired' = Append(fired, [task |-> task.task, date |-> task.date,
                                       at |-> wake])
    /\ pc' = "fired"
    /\ UNCHANGED << scheduled_tasks, removed_tasks, mode, rh_removed, result, runs >>
    /\ UNCHANGED << parallel_vars, date_vars, config_vars, serde_vars, count_vars,
                    start_vars >>

\* line 284: update_outdated_tasks_and_repetition_count after the callback
loop_update ==
    /\ pc = "fired"
    /\ \E d \in 0..MaxDelay :
       \E answers \in Answers(custom_repetition, Local_now(clock + d)) :
        LET st == update_outdated_tasks_and_repetition_count(
                      Handler(scheduled_tasks[mode], rh_removed, FALSE),
                      Local_now(clock + d), custom_repetition, answers,
                      overflow_checks)
        IN  /\ clock' = clock + d
            /\ scheduled_tasks' = [scheduled_tasks EXCEPT ![mode] = st.cur]
            /\ rh_removed' = IF st.panic THEN <<>> ELSE st.removed
            /\ pc' = IF st.panic THEN "panicked" ELSE "loop"
            /\ result' = IF st.panic THEN "panic" ELSE "none"
    /\ UNCHANGED << removed_tasks, mode, fired, runs >>
    /\ UNCHANGED << parallel_vars, date_vars, config_vars, serde_vars, count_vars,
                    start_vars >>

\* the end of the loop taken as soon as no task is due, tasks being left or not
loop_complete_nothing_due ==
    /\ pc = "loop"
    /\ \/ get_current_task(scheduled_tasks[mode]) = <<>>
       \/ /\ get_current_task(scheduled_tasks[mode]) # <<>>
          /\ before(Local_now(clock),
                    get_current_task(scheduled_tasks[mode])[1].date)
    /\ removed_tasks' = [removed_tasks EXCEPT ![mode] = @ \o rh_removed]
    /\ rh_removed' = <<>>
    /\ pc' = "idle"
    /\ result' = "Ok"
    /\ UNCHANGED << scheduled_tasks, clock, mode, fired, runs >>
    /\ UNCHANGED << parallel_vars, date_vars, config_vars, serde_vars, count_vars,
                    start_vars >>

\* lines 286-298: no task is left, the loop ends, the removed tasks are appended to
\* removed_tasks[mode], which get_mut(mode) finds, and start returns Ok
loop_complete ==
    /\ pc = "loop"
    /\ get_current_task(scheduled_tasks[mode]) = <<>>
    /\ mode \in DOMAIN removed_tasks
    /\ removed_tasks' = [removed_tasks EXCEPT ![mode] = @ \o rh_removed]
    /\ rh_removed' = <<>>
    /\ pc' = "idle"
    /\ result' = "Ok"
    /\ UNCHANGED << scheduled_tasks, clock, mode, fired, runs >>
    /\ UNCHANGED << parallel_vars, date_vars, config_vars, serde_vars, count_vars,
                    start_vars >>

Next ==
    \/ \E m \in Modes : start_unknown(m)
    \/ \E m \in Modes : start_catch_up(m)
    \/ loop_out_of_range
    \/ loop_fire
    \/ loop_update
    \/ loop_complete

Spec == Init /\ [][Next]_vars

(***************************************************************************)
(* BlockingScheduler::start on lanes that hold Custom tasks, of a          *)
(* scheduler built by new (no handler) or by new_with_custom_repetition    *)
(* (a handler of the caller), which ParallelScheduler builds and whose     *)
(* start its workers call.                                                 *)
(***************************************************************************)
\* the handlers a scheduler is built with
Handlers == {"NoCustomRepetition", "Never", "EveryDay", "Tomorrow", "Handler"}

\* the tasks of the lanes with Custom tasks: a Custom task overdue, due at the
\* instant the scheduler is built and due later, and tasks of other rules
CustomPool ==
    { [r |-> Custom,                   d |-> Due(-2)],
      [r |-> Custom,                   d |-> Due(0)],
      [r |-> Custom,                   d |-> Due(1)],
      [r |-> Once,                     d |-> Due(1)],
      [r |-> Weekly(Finished(2)),      d |-> Due(-8 * 24)],
      [r |-> ConstGap(3, Finished(2)), d |-> Due(1)] }

\* the lanes of one and of two tasks that hold a Custom task
CustomLanes ==
    { la \in LanesOfLen(CustomPool, 1) \cup LanesOfLen(CustomPool, 2) :
         \E i \in DOMAIN la : la[i].repetition.kind = "Custom" }

\* BlockingScheduler::new_with_custom_repetition
new_with_custom_repetition(scheduled, removed, handler) ==
    [scheduled_tasks   |-> scheduled,
     removed_tasks     |-> format_removed_tasks(scheduled, removed),
     custom_repetition |-> handler]

InitCustom ==
    /\ \E la \in CustomLanes, handler \in Handlers :
          LET s == new_with_custom_repetition(
                       [k \in {"a", "b"} |-> IF k = "a" THEN la ELSE LaneB],
                       EmptyMap, handler)
          IN  /\ scheduled_tasks = s.scheduled_tasks
              /\ removed_tasks = s.removed_tasks
              /\ custom_repetition = s.custom_repetition
              /\ start_tasks = s.scheduled_tasks
              /\ start_removed = s.removed_tasks
    /\ supplied = EmptyMap
    /\ clock = T0
    /\ pc = "idle"
    /\ mode = ""
    /\ rh_removed = <<>>
    /\ start_now = Local_now(T0)
    /\ result = "none"
    /\ fired = <<>>
    /\ runs = 0
    /\ overflow_checks = TRUE
    /\ NoCount
    /\ NoDate
    /\ NoParallel
    /\ NoSerde

SpecCustom == InitCustom /\ [][Next]_vars

(***************************************************************************)
(* Serialize and Deserialize of BlockingScheduler (derived under the       *)
(* feature "serde").  NoCustomRepetition implements neither, and           *)
(* new_with_custom_repetition is private: a scheduler that can be          *)
(* serialized is one that was deserialized from a document.                *)
(***************************************************************************)
SecondsPerHour == 3600

\* DateTime<FixedOffset> as chrono writes it, RFC 3339: the local date and time,
\* the fraction of a second and the offset
serialize_date(dt) == [local |-> dt.utc + dt.off, offset |-> dt.off, frac |-> dt.frac]
deserialize_date(x) == [utc |-> x.local - x.offset, off |-> x.offset, frac |-> x.frac]

\* RepetitionType as derived: the variant and its fields, the gap of ConstGap
\* written with As::<DurationSeconds<i64>>, in whole seconds
serialize_repetition(r) ==
    [variant |-> r.kind, count |-> r.count, seconds |-> r.gap * SecondsPerHour]
deserialize_repetition(x) ==
    [kind |-> x.variant, count |-> x.count, gap |-> div(x.seconds, SecondsPerHour)]

\* Serialize for SleepType: the unit variant "Native"; Deserialize for SleepType
\* without the feature "spin_sleep": visit_enum returns Native whatever is read
serialize_sleep_type(t) == [variant |-> t]
deserialize_sleep_type(x) == "Native"

\* ScheduledTask as derived, field by field
serialize_task(t) ==
    [task       |-> t.task,
     date       |-> serialize_date(t.date),
     repetition |-> serialize_repetition(t.repetition),
     sleep_type |-> serialize_sleep_type(t.sleep_type)]
deserialize_task(x) ==
    [task       |-> x.task,
     date       |-> deserialize_date(x.date),
     repetition |-> deserialize_repetition(x.repetition),
     sleep_type |-> deserialize_sleep_type(x.sleep_type)]

\* a map of lanes, entry by entry
serialize_map(m) ==
    [k \in DOMAIN m |-> [i \in DOMAIN m[k] |-> serialize_task(m[k][i])]]
deserialize_map(d) ==
    [k \in DOMAIN d |-> [i \in DOMAIN d[k] |-> deserialize_task(d[k][i])]]

\* derive(Serialize, Deserialize) of BlockingScheduler: the three fields are
\* written and read as they are; no constructor runs when a document is read
serialize(s) ==
    [scheduled_tasks   |-> serialize_map(s.scheduled_tasks),
     removed_tasks     |-> serialize_map(s.removed_tasks),
     custom_repetition |-> s.custom_repetition]
deserialize(doc) ==
    [scheduled_tasks   |-> deserialize_map(doc.scheduled_tasks),
     removed_tasks     |-> deserialize_map(doc.removed_tasks),
     custom_repetition |-> doc.custom_repetition]

\* the scheduler in the state
this_scheduler ==
    [scheduled_tasks   |-> scheduled_tasks,
     removed_tasks     |-> removed_tasks,
     custom_repetition |-> custom_repetition]

\* the lanes "a" of the documents a scheduler is first read from
DocumentLanes ==
    { <<>>,
      << ScheduledTask(1, Due(1), Once) >>,
      << ScheduledTask(1, Due(0), Once) >>,
      << ScheduledTask(1, Due(-2), ConstGap(3, Finished(2))) >>,
      << ScheduledTask(1, Due(-2), Custom), ScheduledTask(2, Due(1), Once) >> }

\* the history of those documents: an entry for each lane, for lane "a" alone, or
\* for no lane
DocumentHistories ==
    { [k \in {"a", "b"} |-> IF k = "a" THEN <<OldTask>> ELSE <<>>],
      [k \in {"a"} |-> <<OldTask>>],
      EmptyMap }

\* the documents a scheduler is first read from
Documents ==
    { serialize([scheduled_tasks   |-> [k \in {"a", "b"} |->
                                           IF k = "a" THEN la ELSE LaneB],
                 removed_tasks     |-> h,
                 custom_repetition |-> handler]) :
        la \in DocumentLanes, h \in DocumentHistories, handler \in {"Never", "EveryDay"} }

\* the scheduler is read from a document
InitSerde ==
    /\ \E doc \in Documents :
          /\ scheduled_tasks = deserialize(doc).scheduled_tasks
          /\ removed_tasks = deserialize(doc).removed_tasks
          /\ custom_repetition = deserialize(doc).custom_repetition
          /\ start_tasks = deserialize(doc).scheduled_tasks
          /\ start_removed = deserialize(doc).removed_tasks
          /\ supplied = deserialize(doc).removed_tasks
          /\ persisted = [document |-> doc, of |-> deserialize(doc), loaded |-> TRUE]
    /\ clock = T0
    /\ pc = "idle"
    /\ mode = ""
    /\ rh_removed = <<>>
    /\ start_now = Local_now(T0)
    /\ result = "none"
    /\ fired = <<>>
    /\ runs = 0
    /\ overflow_checks = TRUE
    /\ NoCount
    /\ NoDate
    /\ NoParallel

\* the caller serializes the scheduler between two calls of start
call_serialize ==
    /\ pc = "idle"
    /\ persisted' = [document |-> serialize(this_scheduler), of |-> this_scheduler,
                     loaded |-> FALSE]
    /\ UNCHANGED << sched_vars, pc, config_vars, start_vars, count_vars, date_vars,
                    parallel_vars >>

\* the caller deserializes the document written last and goes on with the
\* scheduler read from it
call_deserialize ==
    /\ pc = "idle"
    /\ ~persisted.loaded
    /\ scheduled_tasks' = deserialize(persisted.document).scheduled_tasks
    /\ removed_tasks' = deserialize(persisted.document).removed_tasks
    /\ custom_repetition' = deserialize(persisted.document).custom_repetition
    /\ persisted' = [persisted EXCEPT !.loaded = TRUE]
    /\ UNCHANGED << clock, pc, mode, rh_removed, result, fired, runs, overflow_checks,
                    supplied, start_vars, count_vars, date_vars, parallel_vars >>

\* lines 291-297 when removed_tasks has no entry for the lane: get_mut(mode) is
\* None and unwrap_unchecked() on it is undefined behaviour; the thread aborts, or
\* start goes on and returns Ok with nothing appended to an entry of the history
loop_complete_unchecked ==
    /\ pc = "loop"
    /\ get_current_task(scheduled_tasks[mode]) = <<>>
    /\ mode \notin DOMAIN removed_tasks
    /\ \/ /\ pc' = "panicked"
          /\ result' = "panic"
       \/ /\ pc' = "idle"
          /\ result' = "Ok"
    /\ rh_removed' = <<>>
    /\ UNCHANGED << scheduled_tasks, removed_tasks, clock, mode, fired, runs >>
    /\ UNCHANGED << parallel_vars, date_vars, config_vars, serde_vars, count_vars,
                    start_vars >>

NextSerde ==
    \/ Next
    \/ loop_complete_unchecked
    \/ call_serialize
    \/ call_deserialize

SpecSerde == InitSerde /\ [][NextSerde]_vars

(***************************************************************************)
(* RepetitionCount::is_finished_on_update on its own: a count is drawn and *)
(* the function is called on it again and again.                           *)
(***************************************************************************)
InitCount ==
    /\ InitScheduler([k \in {"a", "b"} |-> IF k = "a" THEN <<>> ELSE LaneB], EmptyMap)
    /\ overflow_checks \in BOOLEAN
    /\ count0 \in {Infinite} \cup { Finished(n) : n \in 0..MaxCount }
    /\ count = count0
    /\ returns = <<>>
    /\ NoDate
    /\ NoParallel
    /\ NoSerde

\* one call of is_finished_on_update on count
consume ==
    /\ pc = "idle"
    /\ Len(returns) <= MaxCount
    /\ LET c == is_finished_on_update(count, overflow_checks)
       IN  /\ pc' = IF c.panic THEN "panicked" ELSE "idle"
           /\ count' = c.count
           /\ returns' = IF c.panic THEN returns ELSE Append(returns, c.finished)
    /\ UNCHANGED << sched_vars, config_vars, serde_vars, start_vars, date_vars,
                    parallel_vars,
                    count0 >>

NextCount == consume

SpecCount == InitCount /\ [][NextCount]_vars

(***************************************************************************)
(* The date functions of RepetitionHelpers on their own: an origin, a date *)
(* and a gap are drawn and one of the functions is called on them.         *)
(***************************************************************************)
\* the local date y-m-d at h o'clock and frac ticks, with the offset off
On(y, m, d, h, frac, off) == ymd_and_hms(off, y, m, d, h, frac).date

\* the origins: the 15th of every month of 2024 and of March of the two years
\* after it, at 10:00 +02:00
Origins ==
    { On(2024, m, 15, 10, 0, 2) : m \in 1..12 }
        \cup { On(2025, 3, 15, 10, 0, 2), On(2026, 3, 15, 10, 0, 2) }

\* the days the dates are on: 29 February, another day of February, the 29th of
\* another month, the days before, on and after the 15th, the last day of January
\* and a day of the December before
Days ==
    { <<2024, 2, 29>>, <<2024, 2, 10>>, <<2024, 3, 29>>, <<2024, 3, 10>>,
      <<2024, 3, 15>>, <<2024, 3, 20>>, <<2024, 1, 31>>, <<2023, 12, 20>> }

\* the dates: every day at 08:00 +02:00 with every fraction of a millisecond, and
\* 15 March 2024 at 10:00 and at 11:00 +02:00, at 08:30 +02:00 and at 08:00 +00:00
Dates ==
    { On(x[1], x[2], x[3], 8, f, 2) : x \in Days, f \in 0..(SubPerMs - 1) }
        \cup { On(2024, 3, 15, 10, 0, 2), On(2024, 3, 15, 11, 0, 2),
               On(2024, 3, 15, 8, 30 * 60 * TicksPerSecond, 2),
               On(2024, 3, 15, 8, 0, 0) }

\* the longest gap, in hours, given to update_const_gap: a Duration is signed, and
\* the gaps go from -MaxGap to MaxGap
MaxGap == 3

InitDates ==
    /\ InitScheduler([k \in {"a", "b"} |-> IF k = "a" THEN <<>> ELSE LaneB], EmptyMap)
    /\ overflow_checks = TRUE
    /\ NoCount
    /\ origin \in Origins
    /\ date \in Dates
    /\ date0 = date
    /\ gap \in (-MaxGap)..MaxGap
    /\ updated = [by |-> "none", ok |-> TRUE]
    /\ NoParallel
    /\ NoSerde

\* one call of a date function: date is updated in place unless the call panics
call(by, r) ==
    /\ updated.by = "none"
    /\ updated' = [by |-> by, ok |-> r.ok]
    /\ date' = IF r.ok THEN r.date ELSE date
    /\ UNCHANGED << origin, gap, date0, pc, sched_vars, config_vars, serde_vars,
                    start_vars,
                    count_vars, parallel_vars >>

call_update_weekly    == call("update_weekly", update_weekly(origin, date))
call_update_monthly   == call("update_monthly", update_monthly(origin, date))
call_update_yearly    == call("update_yearly", update_yearly(origin, date))
call_update_const_gap == call("update_const_gap", update_const_gap(origin, date, gap))

NextDates ==
    \/ call_update_weekly
    \/ call_update_monthly
    \/ call_update_yearly
    \/ call_update_const_gap

SpecDates == InitDates /\ [][NextDates]_vars

(***************************************************************************)
(* ParallelScheduler (schedulers.rs): every call of start and of           *)
(* start_scoped_thread clones the scheduler and runs BlockingScheduler's   *)
(* start on the clone in a thread of its own.  A worker is that thread:    *)
(* its clone, where its call of start is, and its own readings of the      *)
(* clock.  The steps of a worker are the steps of BlockingScheduler::start.*)
(***************************************************************************)
\* most threads spawned in one behaviour
MaxWorkers == 2

\* ParallelScheduler.scheduler
self_scheduler ==
    [scheduled_tasks   |-> scheduled_tasks,
     removed_tasks     |-> removed_tasks,
     custom_repetition |-> custom_repetition]

\* derive(Clone) of BlockingScheduler: a copy of the two maps and of the handler
clone(s) ==
    [scheduled_tasks   |-> s.scheduled_tasks,
     removed_tasks     |-> s.removed_tasks,
     custom_repetition |-> s.custom_repetition]

\* the thread spawned with the closure "move || scheduler.start(&mode, f)"
Worker(kind, m, s) ==
    [kind |-> kind, mode |-> m, scheduler |-> s, pc |-> "spawned",
     rh_removed |-> <<>>, result |-> "none", fired |-> <<>>, clock |-> clock]

\* the closure of a worker has returned or panicked
finished(w) == workers[w].pc \in {"done", "panicked"}

\* the lanes a ParallelScheduler is built with: lane "a" is empty, or due later, or
\* due at once, or overdue twice over, or overdue and due later, or never ending
ParallelLanes ==
    { <<>>,
      << ScheduledTask(1, Due(1), Once) >>,
      << ScheduledTask(1, Due(0), Weekly(Finished(2))) >>,
      << ScheduledTask(1, Due(-2), Once), ScheduledTask(2, Due(-2), Once) >>,
      << ScheduledTask(1, Due(-2), Once), ScheduledTask(2, Due(1), Once) >>,
      << ScheduledTask(1, Due(1), Weekly(Infinite)) >> }

\* ParallelScheduler::new
InitParallel ==
    /\ \E la \in ParallelLanes, h \in SuppliedHistories :
          InitScheduler([k \in {"a", "b"} |-> IF k = "a" THEN la ELSE LaneB], h)
    /\ overflow_checks = TRUE
    /\ NoCount
    /\ NoDate
    /\ NoParallel
    /\ NoSerde

\* what no step of ParallelScheduler or of a worker changes: the scheduler of the
\* ParallelScheduler is read only, by clone
parallel_frame ==
    UNCHANGED << scheduled_tasks, removed_tasks, pc, mode, rh_removed, result, fired,
                 runs, scope_thread_handlers, config_vars, serde_vars, start_vars,
                 count_vars,
                 date_vars >>

\* ParallelScheduler::start with the scheduler of the last worker in place of a
\* clone of self.scheduler
ParallelScheduler_start_shared(m) ==
    /\ caller_pc = "ready"
    /\ Len(workers) < MaxWorkers
    /\ Len(returned) < MaxWorkers
    /\ workers' = Append(workers,
                         Worker("thread", m,
                                IF workers = <<>> THEN clone(self_scheduler)
                                ELSE workers[Len(workers)].scheduler))
    /\ joined' = Append(joined, "none")
    /\ thread_handlers' = Append(thread_handlers, Len(workers) + 1)
    /\ returned' = Append(returned, [call |-> "start", worker |-> Len(workers) + 1,
                                     value |-> "Ok"])
    /\ UNCHANGED << caller_pc, clock >>
    /\ parallel_frame

\* ParallelScheduler::start, lines 344-356: the scheduler is cloned, the thread is
\* spawned with the clone, its JoinHandle is pushed and Ok(()) is returned
ParallelScheduler_start(m) ==
    /\ caller_pc = "ready"
    /\ Len(workers) < MaxWorkers
    /\ Len(returned) < MaxWorkers
    /\ workers' = Append(workers, Worker("thread", m, clone(self_scheduler)))
    /\ joined' = Append(joined, "none")
    /\ thread_handlers' = Append(thread_handlers, Len(workers) + 1)
    /\ returned' = Append(returned, [call |-> "start", worker |-> Len(workers) + 1,
                                     value |-> "Ok"])
    /\ UNCHANGED << caller_pc, clock >>
    /\ parallel_frame

\* ParallelScheduler::start when thread::Builder::spawn fails: "?" returns the
\* io::Error, no thread runs and nothing is pushed
ParallelScheduler_start_spawn_fails(m) ==
    /\ caller_pc = "ready"
    /\ Len(workers) < MaxWorkers
    /\ Len(returned) < MaxWorkers
    /\ returned' = Append(returned, [call |-> "start", worker |-> 0,
                                     value |-> "IoError"])
    /\ UNCHANGED << workers, joined, thread_handlers, caller_pc, clock >>
    /\ parallel_frame

\* ParallelScheduler::start_scoped_thread that returns Ok(()) as soon as the
\* thread is spawned
ParallelScheduler_start_scoped_thread_detached(m) ==
    /\ caller_pc = "ready"
    /\ Len(workers) < MaxWorkers
    /\ Len(returned) < MaxWorkers
    /\ workers' = Append(workers, Worker("scoped", m, clone(self_scheduler)))
    /\ joined' = Append(joined, "none")
    /\ returned' = Append(returned, [call |-> "start_scoped_thread",
                                     worker |-> Len(workers) + 1, value |-> "Ok"])
    /\ UNCHANGED << thread_handlers, caller_pc, clock >>
    /\ parallel_frame

\* ParallelScheduler::start_scoped_thread, lines 357-363: the scheduler is cloned
\* and the thread is spawned in thread::scope, which does not return before the
\* thread has ended; the ScopedJoinHandle is dropped
ParallelScheduler_start_scoped_thread(m) ==
    /\ caller_pc = "ready"
    /\ Len(workers) < MaxWorkers
    /\ Len(returned) < MaxWorkers
    /\ workers' = Append(workers, Worker("scoped", m, clone(self_scheduler)))
    /\ joined' = Append(joined, "none")
    /\ caller_pc' = "in_scope"
    /\ UNCHANGED << thread_handlers, returned, clock >>
    /\ parallel_frame

\* lines 363-366: thread::scope joins the thread; it panics if the thread has
\* panicked, and otherwise start_scoped_thread returns Ok(()), whatever the
\* thread's call of start returned
scope_end ==
    /\ caller_pc = "in_scope"
    /\ finished(Len(workers))
    /\ caller_pc' = IF workers[Len(workers)].pc = "panicked" THEN "panicked"
                    ELSE "ready"
    /\ returned' = IF workers[Len(workers)].pc = "panicked" THEN returned
                   ELSE Append(returned, [call |-> "start_scoped_thread",
                                          worker |-> Len(workers), value |-> "Ok"])
    /\ clock' = workers[Len(workers)].clock
    /\ UNCHANGED << workers, joined, thread_handlers >>
    /\ parallel_frame

\* the caller takes the JoinHandle of worker w out of thread_handlers and joins it:
\* join returns what the closure returned, or Err when the thread has panicked
join(w) ==
    /\ caller_pc = "ready"
    /\ w \in DOMAIN workers
    /\ finished(w)
    /\ \E i \in DOMAIN thread_handlers :
          /\ thread_handlers[i] = w
          /\ thread_handlers' = SubSeq(thread_handlers, 1, i - 1)
                                   \o SubSeq(thread_handlers, i + 1, Len(thread_handlers))
    /\ joined' = [joined EXCEPT ![w] = workers[w].result]
    /\ UNCHANGED << workers, caller_pc, returned, clock >>
    /\ parallel_frame

\* a step of worker w: its own state becomes r
worker_step(w, r) ==
    /\ workers' = [workers EXCEPT ![w] = r]
    /\ UNCHANGED << thread_handlers, caller_pc, returned, joined, clock >>
    /\ parallel_frame

\* BlockingScheduler::start in worker w, lines 257-263, the mode being no lane of
\* the clone
worker_unknown(w) ==
    /\ workers[w].pc = "spawned"
    /\ workers[w].mode \notin DOMAIN workers[w].scheduler.scheduled_tasks
    /\ worker_step(w, [workers[w] EXCEPT !.pc = "done", !.result = "UnknownLane"])

\* lines 257-264 in worker w: the catch-up pass over the lane of the clone
worker_catch_up(w) ==
    /\ workers[w].pc = "spawned"
    /\ workers[w].mode \in DOMAIN workers[w].scheduler.scheduled_tasks
    /\ \E d \in 0..MaxDelay :
       \E answers \in Answers(workers[w].scheduler.custom_repetition,
                              Local_now(workers[w].clock + d)) :
        LET st == update_outdated_tasks(
                      workers[w].scheduler.scheduled_tasks[workers[w].mode],
                      Local_now(workers[w].clock + d),
                      workers[w].scheduler.custom_repetition, answers)
        IN  worker_step(w,
              [workers[w] EXCEPT
                 !.clock = @ + d,
                 !.scheduler.scheduled_tasks[workers[w].mode] = st.cur,
                 !.rh_removed = IF st.panic THEN <<>> ELSE st.removed,
                 !.pc = IF st.panic THEN "panicked" ELSE "loop",
                 !.result = IF st.panic THEN "panic" ELSE "none"])

\* lines 267-273 in worker w when to_std() fails
worker_out_of_range(w) ==
    /\ workers[w].pc = "loop"
    /\ workers[w].scheduler.scheduled_tasks[workers[w].mode] # <<>>
    /\ \E d \in 0..MaxDelay :
        /\ before(get_current_task(
                      workers[w].scheduler.scheduled_tasks[workers[w].mode])[1].date,
                  Local_now(workers[w].clock + d))
        /\ worker_step(w, [workers[w] EXCEPT !.clock = @ + d,
                                             !.pc = "done",
                                             !.result = "DateOutOfRange",
                                             !.rh_removed = <<>>])

\* lines 267-283 in worker w: the sleep and the callback
worker_fire(w) ==
    /\ workers[w].pc = "loop"
    /\ workers[w].scheduler.scheduled_tasks[workers[w].mode] # <<>>
    /\ Len(workers[w].fired) < MaxFires
    /\ \E d \in 0..MaxDelay :
        LET task == get_current_task(
                        workers[w].scheduler.scheduled_tasks[workers[w].mode])[1]
            wake == task.date.utc + (IF task.date.frac = 0 THEN 0 ELSE 1)
        IN  /\ ~before(task.date, Local_now(workers[w].clock + d))
            /\ worker_step(w,
                 [workers[w] EXCEPT
                    !.clock = wake,
                    !.fired = Append(@, [task |-> task.task, date |-> task.date,
                                         at |-> wake]),
                    !.pc = "fired"])

\* line 284 in worker w: the fire pass
worker_update(w) ==
    /\ workers[w].pc = "fired"
    /\ \E d \in 0..MaxDelay :
       \E answers \in Answers(workers[w].scheduler.custom_repetition,
                              Local_now(workers[w].clock + d)) :
        LET st == update_outdated_tasks_and_repetition_count(
                      Handler(workers[w].scheduler.scheduled_tasks[workers[w].mode],
                              workers[w].rh_removed, FALSE),
                      Local_now(workers[w].clock + d),
                      workers[w].scheduler.custom_repetition, answers,
                      overflow_checks)
        IN  worker_step(w,
              [workers[w] EXCEPT
                 !.clock = @ + d,
                 !.scheduler.scheduled_tasks[workers[w].mode] = st.cur,
                 !.rh_removed = IF st.panic THEN <<>> ELSE st.removed,
                 !.pc = IF st.panic THEN "panicked" ELSE "loop",
                 !.result = IF st.panic THEN "panic" ELSE "none"])

\* lines 286-298 in worker w: the lane of the clone is empty, the removed tasks
\* are appended to the history of the clone and start returns Ok
worker_complete(w) ==
    /\ workers[w].pc = "loop"
    /\ get_current_task(workers[w].scheduler.scheduled_tasks[workers[w].mode]) = <<>>
    /\ worker_step(w,
         [workers[w] EXCEPT
            !.scheduler.removed_tasks[workers[w].mode] = @ \o workers[w].rh_removed,
            !.rh_removed = <<>>,
            !.pc = "done",
            !.result = "Ok"])

NextParallel ==
    \/ \E m \in Modes : ParallelScheduler_start(m)
    \/ \E m \in Modes : ParallelScheduler_start_spawn_fails(m)
    \/ \E m \in Modes : ParallelScheduler_start_scoped_thread(m)
    \/ scope_end
    \/ \E w \in DOMAIN workers : join(w)
    \/ \E w \in DOMAIN workers : worker_unknown(w)
    \/ \E w \in DOMAIN workers : worker_catch_up(w)
    \/ \E w \in DOMAIN workers : worker_out_of_range(w)
    \/ \E w \in DOMAIN workers : worker_fire(w)
    \/ \E w \in DOMAIN workers : worker_update(w)
    \/ \E w \in DOMAIN workers : worker_complete(w)

SpecParallel == InitParallel /\ [][NextParallel]_vars

(***************************************************************************)
(* Vocabulary of the properties.                                           *)
(***************************************************************************)
Recurring == {"Weekly", "Monthly", "Yearly", "ConstGap"}

\* the payloads of the tasks of a vector
Payloads(s) == { s[i].task : i \in DOMAIN s }

\* what the current call of start has appended to removed_tasks[m]
Appended(m) ==
    SubSeq(removed_tasks[m], Len(start_removed[m]) + 1, Len(removed_tasks[m]))

\* ascending by due date
IsAscending(s) ==
    \A i, j \in DOMAIN s : i < j => ~before(s[j].date, s[i].date)

\* start has been called on a lane that exists
KnownRun == runs >= 1 /\ mode \in DOMAIN start_tasks

\* the current call of start has ended: it returned or it panicked
Ended == runs >= 1 /\ result # "none"

(***************************************************************************)
(* The properties.                                                         *)
(***************************************************************************)

\* C1: when start ends on a lane that held only Once tasks, it has returned Ok,
\* the lane is empty, and the lane's history has gained exactly the lane's tasks,
\* in ascending order of their due dates.
C1_OnceLaneEmptiesInOrder ==
    (Ended /\ KnownRun
        /\ \A i \in DOMAIN start_tasks[mode] :
              start_tasks[mode][i].repetition.kind = "Once")
    => /\ result = "Ok"
       /\ scheduled_tasks[mode] = <<>>
       /\ Len(Appended(mode)) = Len(start_tasks[mode])
       /\ { Appended(mode)[i] : i \in DOMAIN Appended(mode) }
            = { start_tasks[mode][i] : i \in DOMAIN start_tasks[mode] }
       /\ IsAscending(Appended(mode))

\* C2: every callback invocation is for a task whose due date is the least of the
\* due dates in the queue at that moment, so the due dates of the invocations of a
\* run never decrease.
C2_FiresMinimumDueDate ==
    pc = "fired"
    => /\ \A i \in DOMAIN scheduled_tasks[mode] :
             ~before(scheduled_tasks[mode][i].date, fired[Len(fired)].date)
       /\ \A i, j \in DOMAIN fired :
             i < j => ~before(fired[j].date, fired[i].date)

\* C3: when start ends on a lane that held a single task with a recurring rule and
\* the count Finished(n), n >= 1, due at the instant the run started, it has
\* returned Ok after exactly n invocations one period apart, the task is removed
\* and the history has gained one record.
C3_FiniteRuleFiresNTimes ==
    (Ended /\ KnownRun
        /\ Len(start_tasks[mode]) = 1
        /\ start_tasks[mode][1].repetition.kind \in Recurring
        /\ start_tasks[mode][1].repetition.count.tag = "Finished"
        /\ start_tasks[mode][1].repetition.count.n >= 1
        /\ ~before(start_tasks[mode][1].date, start_now)
        /\ ~before(start_now, start_tasks[mode][1].date))
    => LET rule == start_tasks[mode][1].repetition
       IN  /\ result = "Ok"
           /\ Len(fired) = rule.count.n
           /\ \A i \in 1..(Len(fired) - 1) :
                 CASE rule.kind = "Weekly" ->
                        num_milliseconds(fired[i + 1].date, fired[i].date)
                          = Milliseconds(7 * 24, 0)
                   [] rule.kind = "ConstGap" ->
                        num_milliseconds(fired[i + 1].date, fired[i].date)
                          = Milliseconds(rule.gap, 0)
                   [] OTHER -> before(fired[i].date, fired[i + 1].date)
           /\ scheduled_tasks[mode] = <<>>
           /\ Len(Appended(mode)) = 1

\* C4: when start has returned DateOutOfRange, every task that left the lane's
\* queue during the call is in what the call appended to the lane's history.
C4_FailureMergesRemoved ==
    (KnownRun /\ result = "DateOutOfRange")
    => (Payloads(start_tasks[mode]) \ Payloads(scheduled_tasks[mode]))
          \subseteq Payloads(Appended(mode))

\* C5: a call of start with a name that is no lane returns UnknownLane, invokes
\* no callback and leaves every lane and every history entry as they were.
C5_UnknownLaneMutatesNothing ==
    (runs >= 1 /\ mode \notin DOMAIN start_tasks)
    => /\ result = "UnknownLane"
       /\ pc = "idle"
       /\ fired = <<>>
       /\ scheduled_tasks = start_tasks
       /\ removed_tasks = start_removed

\* C5, witness: the second call of start was for a name that is no lane, on a
\* scheduler whose lane "a" holds tasks and whose history is not empty.
C5_Witness ==
    /\ runs = 2
    /\ mode = "missing"
    /\ result = "UnknownLane"
    /\ scheduled_tasks["a"] # <<>>
    /\ removed_tasks["b"] # <<>>

\* C6: every lane is a key of the history, in every state; before the first call
\* of start, a lane the supplied history lacks has an empty entry and every
\* supplied entry is as supplied.
C6_EveryLaneHasHistory ==
    /\ DOMAIN scheduled_tasks \subseteq DOMAIN removed_tasks
    /\ runs = 0 =>
          /\ \A k \in DOMAIN supplied :
                k \in DOMAIN removed_tasks /\ removed_tasks[k] = supplied[k]
          /\ \A k \in (DOMAIN scheduled_tasks) \ (DOMAIN supplied) :
                removed_tasks[k] = <<>>

\* C6, witness: the supplied history had lane "a" and lacked lane "b"; a call of
\* start has failed and a later one on lane "b" has appended to the entry made for
\* it.
C6_Witness ==
    /\ "a" \in DOMAIN supplied
    /\ "b" \notin DOMAIN supplied
    /\ runs = 2
    /\ mode = "b"
    /\ result = "Ok"
    /\ removed_tasks["b"] # <<>>
    /\ removed_tasks["a"] = supplied["a"]
    /\ scheduled_tasks["a"] # <<>>

\* C7: a Once task that was due before the instant the run started is out of the
\* queue once the catch-up pass is over, its callback is never invoked, and it is
\* in what the call has appended to the history when start has returned.
C7_OverdueOnceRemovedSilently ==
    KnownRun
    => \A i \in DOMAIN start_tasks[mode] :
          LET t == start_tasks[mode][i]
          IN  (t.repetition.kind = "Once" /\ before(t.date, start_now))
              => /\ t.task \notin Payloads(scheduled_tasks[mode])
                 /\ \A k \in DOMAIN fired : fired[k].task # t.task
                 /\ pc = "idle" => t.task \in Payloads(Appended(mode))

\* C8: the step that runs the catch-up pass invokes no callback, and every task
\* with a Weekly, Monthly, Yearly or ConstGap rule that was in the lane is still
\* in the lane after it, with its payload, its rule and its count as before.
C8_CatchUpKeepsCounts ==
    [][ (pc = "idle" /\ pc' # "idle")
        => /\ fired' = <<>>
           /\ \A i \in DOMAIN scheduled_tasks[mode'] :
                 LET t == scheduled_tasks[mode'][i]
                 IN  t.repetition.kind \in Recurring
                     => \E j \in DOMAIN scheduled_tasks'[mode'] :
                           LET u == scheduled_tasks'[mode'][j]
                           IN  /\ u.task = t.task
                               /\ u.repetition = t.repetition
                               /\ u.sleep_type = t.sleep_type ]_vars

\* C8, witness: the catch-up pass has just advanced the due date of an overdue
\* task whose count is Finished(2), and the count is still Finished(2).
C8_Witness ==
    /\ pc = "loop"
    /\ fired = <<>>
    /\ \E i \in DOMAIN start_tasks[mode], j \in DOMAIN scheduled_tasks[mode] :
          /\ start_tasks[mode][i].task = scheduled_tasks[mode][j].task
          /\ start_tasks[mode][i].repetition.kind \in Recurring
          /\ before(start_tasks[mode][i].date, start_now)
          /\ before(start_now, scheduled_tasks[mode][j].date)
          /\ scheduled_tasks[mode][j].repetition.count = Finished(2)

\* C9: whenever the run loop is about to peek the head, the lane is sorted
\* ascending by due date.
C9_SortedAtEveryPeek ==
    pc = "loop" => IsAscending(scheduled_tasks[mode])

\* C10: on Finished(n), n >= 1, the first n calls of is_finished_on_update return
\* false except the n-th, which returns true; on Infinite every call returns false
\* and the count stays Infinite.
C10_ExhaustedOnNthCall ==
    /\ (count0.tag = "Finished" /\ count0.n >= 1)
       => \A k \in DOMAIN returns :
             k <= count0.n => (returns[k] <=> (k = count0.n))
    /\ count0.tag = "Infinite"
       => count = Infinite /\ \A k \in DOMAIN returns : ~returns[k]

\* C10, witness: three calls on Finished(3) have returned false, false, true.
C10_Witness ==
    /\ count0 = Finished(3)
    /\ returns = << FALSE, FALSE, TRUE >>
    /\ count = Finished(0)

\* C11: is_finished_on_update called on Finished(0) does not abort, reports the
\* count exhausted and never takes the counter below 0.
C11_NoUnderflowOnZero ==
    count0 = Finished(0)
    => /\ pc # "panicked"
       /\ count.n >= 0
       /\ returns # <<>> => returns[1]

\* C12: update_weekly returns, and the date it yields is strictly later than the
\* origin (the present) and differs from the date it was called on by a whole
\* number of weeks.
C12_WeeklyCongruent ==
    updated.by = "update_weekly"
    => /\ updated.ok
       /\ before(origin, date)
       /\ date.frac = date0.frac
       /\ (date.utc - date0.utc) % (7 * 24) = 0

\* C13: update_const_gap with a positive gap returns, and the date it yields is the
\* date it was called on plus k gaps, k the smallest number from 0 on that makes
\* it strictly later than the origin.
C13_ConstGapSmallestStep ==
    (updated.by = "update_const_gap" /\ gap > 0)
    => /\ updated.ok
       /\ before(origin, date)
       /\ date.frac = date0.frac
       /\ date.utc >= date0.utc
       /\ (date.utc - date0.utc) % gap = 0
       /\ date.utc > date0.utc => ~before(origin, [date EXCEPT !.utc = @ - gap])

\* the first year after y that is divisible by 4
next_year_divisible_by_4(y) == y - (y % 4) + 4

\* C14: update_yearly returns (it builds no date that does not exist); a date on
\* 29 February goes to 29 February of the next year divisible by 4, and any other
\* date goes to the same month, day and time of day (to the second) of the
\* following year, the years being counted from the date or from the origin.
C14_YearlyKeepsDay ==
    updated.by = "update_yearly"
    => /\ updated.ok
       /\ month(date) = month(date0)
       /\ day(date) = day(date0)
       /\ hour(date) = hour(date0)
       /\ minute_second(date) = minute_second(date0)
       /\ IF month(date0) = 2 /\ day(date0) = 29
          THEN year(date) \in { next_year_divisible_by_4(year(date0)),
                                next_year_divisible_by_4(year(origin)) }
          ELSE year(date) \in { year(date0) + 1, year(origin) + 1 }

\* the month after month m of year y, as << year, month >>
next_month(y, m) == IF m = 12 THEN << y + 1, 1 >> ELSE << y, m + 1 >>

\* C15: update_monthly returns (the month it builds is in 1..12), keeps the day of
\* the month and the time of day (to the second), and yields the month after the
\* month of the date or of the origin, the year growing only from December to
\* January.
C15_MonthlyNextMonth ==
    updated.by = "update_monthly"
    => /\ updated.ok
       /\ day(date) = day(date0)
       /\ hour(date) = hour(date0)
       /\ minute_second(date) = minute_second(date0)
       /\ << year(date), month(date) >>
             \in { next_month(year(date0), month(date0)),
                   next_month(year(origin), month(origin)) }

\* C16: no step changes the lanes or the history of the scheduler that the
\* ParallelScheduler owns, a step changes the state of one worker at most and, in
\* that worker's clone, the lane it runs and its history alone, and the clone a
\* new worker is given is equal to the scheduler of the ParallelScheduler,
\* whatever the workers before it have done to theirs.
C16_WorkersAreIsolated ==
    [][ /\ scheduled_tasks' = scheduled_tasks
        /\ removed_tasks' = removed_tasks
        /\ \A i, j \in DOMAIN workers :
              i # j => (workers'[i] = workers[i] \/ workers'[j] = workers[j])
        /\ \A i \in DOMAIN workers :
           \A k \in DOMAIN workers[i].scheduler.scheduled_tasks :
              k # workers[i].mode
              => /\ workers'[i].scheduler.scheduled_tasks[k]
                       = workers[i].scheduler.scheduled_tasks[k]
                 /\ workers'[i].scheduler.removed_tasks[k]
                       = workers[i].scheduler.removed_tasks[k]
        /\ \A i \in (DOMAIN workers') \ (DOMAIN workers) :
              workers'[i].scheduler = clone(self_scheduler) ]_vars

\* C16, witness: a first worker has emptied lane "a" of its clone and a second
\* worker, spawned after that, has emptied lane "b" of its own; each clone has the
\* other lane as the scheduler of the ParallelScheduler has it.
C16_Witness ==
    /\ Len(workers) = 2
    /\ workers[1].kind = "scoped" /\ workers[1].mode = "a" /\ workers[1].result = "Ok"
    /\ workers[2].kind = "thread" /\ workers[2].mode = "b" /\ workers[2].result = "Ok"
    /\ scheduled_tasks["a"] # <<>>
    /\ workers[1].scheduler.scheduled_tasks["a"] = <<>>
    /\ workers[1].scheduler.scheduled_tasks["b"] = scheduled_tasks["b"]
    /\ workers[2].scheduler.scheduled_tasks["a"] = scheduled_tasks["a"]
    /\ workers[2].scheduler.scheduled_tasks["b"] = <<>>

\* C17: when the call of start of a worker has returned UnknownLane or
\* DateOutOfRange, the caller gets that error: for a worker of start, its
\* JoinHandle is retained until it is joined and join returns the error; for a
\* worker of start_scoped_thread, the call returns the error.
C17_FailureReachesCaller ==
    \A w \in DOMAIN workers :
       (finished(w) /\ workers[w].result \in {"UnknownLane", "DateOutOfRange"})
       => IF workers[w].kind = "thread"
          THEN IF joined[w] = "none"
               THEN \E i \in DOMAIN thread_handlers : thread_handlers[i] = w
               ELSE joined[w] = workers[w].result
          ELSE \A k \in DOMAIN returned :
                  returned[k].worker = w => returned[k].value = workers[w].result

\* C18: what join returns for a worker gives the final state of the worker's
\* scheduler: two workers whose joins have both returned Ok(()) ended with the
\* same lanes and the same history.
C18_FinalStateFromJoin ==
    \A v, w \in DOMAIN workers :
       (joined[v] = "Ok" /\ joined[w] = "Ok")
       => workers[v].scheduler = workers[w].scheduler

\* C19: a call of start_scoped_thread has returned only if the run it started has
\* ended; the JoinHandles that thread_handlers holds, with those the caller has
\* taken and joined, are one for every call of start that returned Ok, each of a
\* different worker of such a call.
C19_ScopedWaitsSpawnRetains ==
    /\ \A k \in DOMAIN returned :
          returned[k].call = "start_scoped_thread" => finished(returned[k].worker)
    /\ Cardinality({ k \in DOMAIN returned :
                        returned[k].call = "start" /\ returned[k].value = "Ok" })
          = Len(thread_handlers)
               + Cardinality({ w \in DOMAIN workers : joined[w] # "none" })
    /\ \A i, j \in DOMAIN thread_handlers :
          i # j => thread_handlers[i] # thread_handlers[j]
    /\ \A i \in DOMAIN thread_handlers :
          /\ joined[thread_handlers[i]] = "none"
          /\ \E k \in DOMAIN returned :
                /\ returned[k].call = "start"
                /\ returned[k].value = "Ok"
                /\ returned[k].worker = thread_handlers[i]

\* C19, witness: a call of start has returned while the run it started has not
\* ended, its JoinHandle is held, and a call of start_scoped_thread has returned
\* after a run that fired a callback.
C19_Witness ==
    \E j, k \in DOMAIN returned :
       /\ returned[j].call = "start" /\ returned[j].value = "Ok"
       /\ ~finished(returned[j].worker)
       /\ \E i \in DOMAIN thread_handlers : thread_handlers[i] = returned[j].worker
       /\ returned[k].call = "start_scoped_thread"
       /\ workers[returned[k].worker].fired # <<>>

\* C20: when start has returned Ok the lane it ran is empty, and the lane held no
\* task with a Weekly, Monthly, Yearly or ConstGap rule whose count is Infinite
\* when start was called.
C20_OkOnlyWhenEmpty ==
    (KnownRun /\ result = "Ok")
    => /\ scheduled_tasks[mode] = <<>>
       /\ \A i \in DOMAIN start_tasks[mode] :
             ~ /\ start_tasks[mode][i].repetition.kind \in Recurring
               /\ start_tasks[mode][i].repetition.count = Infinite

\* C20, witness: start has returned Ok on a lane of two tasks, one of them with a
\* count, after it fired callbacks.
C20_Witness ==
    /\ KnownRun
    /\ result = "Ok"
    /\ Len(start_tasks[mode]) = 2
    /\ \E i \in DOMAIN start_tasks[mode] :
          start_tasks[mode][i].repetition.count = Finished(2)
    /\ Len(fired) >= 2
    /\ scheduled_tasks[mode] = <<>>

\* the rule of task t is terminal: Once, or a recurring rule with Finished(n), n >= 1
Terminal(t) ==
    \/ t.repetition.kind = "Once"
    \/ /\ t.repetition.kind \in Recurring
       /\ t.repetition.count.tag = "Finished"
       /\ t.repetition.count.n >= 1

\* C21: when start ends on a lane that was sorted and whose tasks all had a
\* terminal rule and a due date not before the instant the run started, it has
\* returned Ok: it has neither panicked nor returned an error, however many tasks
\* the lane held and whether or not their due dates were the same.
C21_TerminalLaneSucceeds ==
    (Ended /\ KnownRun
        /\ IsAscending(start_tasks[mode])
        /\ \A i \in DOMAIN start_tasks[mode] :
              /\ Terminal(start_tasks[mode][i])
              /\ before(start_now, start_tasks[mode][i].date))
    => result = "Ok"

\* the step is a pass over the lane mode': the catch-up pass or the fire pass; the
\* instant the pass reads as now is Local_now(clock')
PassStep == (pc = "idle" /\ pc' # "idle") \/ (pc = "fired" /\ pc' # "fired")

\* the number of tasks of the lane that a pass reading now finds outdated
OverduePrefix(lane, now) == position_not_outdated(lane, now)

\* a pass reading now comes to the task at position k of the lane, at that
\* position: the task is in the overdue prefix and every task before it has a
\* Weekly, Monthly, Yearly or ConstGap rule, whose count does not end in this pass
\* when the pass consumes the counts
ReachedAt(lane, k, now, consuming) ==
    /\ k \in 1..OverduePrefix(lane, now)
    /\ \A j \in 1..(k - 1) :
          /\ lane[j].repetition.kind \in Recurring
          /\ consuming => \/ lane[j].repetition.count.tag = "Infinite"
                          \/ lane[j].repetition.count.n >= 2

\* the invocations of the callback, in the current call of start, with payload p
Invocations(p) == { i \in DOMAIN fired : fired[i].task = p }

\* C22: on a scheduler built without a handler, a pass that comes to a Custom task
\* of the overdue prefix panics: start returns no error and the task is left in
\* the lane with its due date; and when that task was not overdue at the instant
\* the run started, its callback has been invoked exactly once before the panic.
C22_NoHandlerAborts ==
    [][ (PassStep /\ custom_repetition = "NoCustomRepetition")
        => \A k \in DOMAIN scheduled_tasks[mode'] :
              LET t == scheduled_tasks[mode'][k]
              IN  (t.repetition.kind = "Custom"
                      /\ ReachedAt(scheduled_tasks[mode'], k, Local_now(clock'),
                                   pc = "fired"))
                  => /\ pc' = "panicked"
                     /\ result' = "panic"
                     /\ k \in DOMAIN scheduled_tasks'[mode']
                     /\ scheduled_tasks'[mode'][k] = t
                     /\ ~before(t.date, start_now')
                           => Cardinality(Invocations(t.task)) = 1 ]_vars

\* C23: update_const_gap called with a gap that is zero or negative does not
\* return: it produces no new due date, and the date it was called on is as it
\* was.
C23_NonPositiveGapRejected ==
    (updated.by = "update_const_gap" /\ gap <= 0)
    => /\ ~updated.ok
       /\ date = date0

\* C24: the scheduler read back from the document a scheduler was serialized to
\* has the lanes of that scheduler and, for every lane the serialized history had,
\* its history; and every lane of it is a key of its history, also when the
\* serialized history lacked some lanes.
C24_RoundTripRestoresHistoryKeys ==
    [][ (~persisted.loaded /\ persisted'.loaded)
        => /\ scheduled_tasks' = persisted.of.scheduled_tasks
           /\ \A k \in DOMAIN persisted.of.removed_tasks :
                 /\ k \in DOMAIN removed_tasks'
                 /\ removed_tasks'[k] = persisted.of.removed_tasks[k]
           /\ DOMAIN scheduled_tasks' \subseteq DOMAIN removed_tasks' ]_vars

\* C25: no step of a call of start, whether the call goes on to return Ok, to
\* return an error or to panic, changes the queue or the history entry of a lane
\* other than the one the call runs, and no step adds or removes a lane.
C25_OtherLanesUntouched ==
    [][ /\ DOMAIN scheduled_tasks' = DOMAIN scheduled_tasks
        /\ DOMAIN removed_tasks' = DOMAIN removed_tasks
        /\ \A k \in DOMAIN scheduled_tasks :
              k # mode' => scheduled_tasks'[k] = scheduled_tasks[k]
        /\ \A k \in DOMAIN removed_tasks :
              k # mode' => removed_tasks'[k] = removed_tasks[k] ]_vars

\* C25, witness: a first call of start has failed on lane "a", leaving tasks in it,
\* after the clock had passed the due date of the task of lane "b"; a second call,
\* on lane "b", has begun and found the lane as the scheduler was built with it.
C25_Witness ==
    /\ runs = 2
    /\ mode = "b"
    /\ pc = "loop"
    /\ scheduled_tasks["a"] # <<>>
    /\ start_tasks["b"] = LaneB
    /\ before(LaneB[1].date, start_now)

\* C26: when a fire pass over a sorted lane has ended, every task that was in the
\* overdue prefix when the pass started has been removed, and is among the tasks
\* removed, or is in the lane with a due date later than the one it had.
C26_FirePassTouchesWholePrefix ==
    [][ (pc = "fired" /\ pc' = "loop" /\ IsAscending(scheduled_tasks[mode]))
        => \A k \in 1..OverduePrefix(scheduled_tasks[mode], Local_now(clock')) :
              LET t == scheduled_tasks[mode][k]
              IN  \/ /\ t.task \notin Payloads(scheduled_tasks'[mode])
                     /\ \E i \in DOMAIN rh_removed' : rh_removed'[i].task = t.task
                  \/ \E j \in DOMAIN scheduled_tasks'[mode] :
                        /\ scheduled_tasks'[mode][j].task = t.task
                        /\ before(t.date, scheduled_tasks'[mode][j].date) ]_vars

\* C27: a pass, the catch-up pass or the fire pass, that reads as now the very
\* instant the first task of the lane is due treats that task as overdue: when the
\* pass has ended, the task has been removed or its due date is later.
C27_DueNowIsOverdue ==
    [][ (PassStep /\ pc' = "loop"
            /\ scheduled_tasks[mode'] # <<>>
            /\ ~before(scheduled_tasks[mode'][1].date, Local_now(clock'))
            /\ ~before(Local_now(clock'), scheduled_tasks[mode'][1].date))
        => LET t == scheduled_tasks[mode'][1]
           IN  \/ t.task \notin Payloads(scheduled_tasks'[mode'])
               \/ \E j \in DOMAIN scheduled_tasks'[mode'] :
                     /\ scheduled_tasks'[mode'][j].task = t.task
                     /\ before(t.date, scheduled_tasks'[mode'][j].date) ]_vars

\* s is a prefix of t
IsPrefix(s, t) == Len(s) <= Len(t) /\ SubSeq(t, 1, Len(s)) = s

\* C28: no step takes an entry out of the history of a lane or changes the order of
\* its entries, and when a call of start returns, with Ok or with an error, the
\* history of the lane it ran is what it was, followed by the tasks the call
\* removed from the lane, in the order in which it removed them.
C28_HistoryAppendOnly ==
    [][ /\ \A k \in DOMAIN removed_tasks :
              /\ k \in DOMAIN removed_tasks'
              /\ IsPrefix(removed_tasks[k], removed_tasks'[k])
        /\ (pc = "loop" /\ pc' = "idle")
              => removed_tasks'[mode] = removed_tasks[mode] \o rh_removed ]_vars

\* C29: when a pass of a scheduler with a handler comes to a Custom task of the
\* overdue prefix and ends, the task has been removed into the removed sequence,
\* as it was, if the handler returned None, and is in the lane with exactly the
\* date the handler returned if it returned one: the handler "Never" removes it,
\* "EveryDay" sets it one day after its due date, "Tomorrow" one day after the now
\* of the pass, and "Handler" removes it or sets it one day after that now.
C29_CustomHandlerDecides ==
    [][ (PassStep /\ pc' = "loop" /\ custom_repetition # "NoCustomRepetition")
        => \A k \in DOMAIN scheduled_tasks[mode'] :
              LET t       == scheduled_tasks[mode'][k]
                  now     == Local_now(clock')
                  removed == /\ t.task \notin Payloads(scheduled_tasks'[mode'])
                             /\ \E i \in DOMAIN rh_removed' : rh_removed'[i] = t
                  kept(d) == \E j \in DOMAIN scheduled_tasks'[mode'] :
                                scheduled_tasks'[mode'][j] = [t EXCEPT !.date = d]
              IN  (t.repetition.kind = "Custom"
                      /\ ReachedAt(scheduled_tasks[mode'], k, now, pc = "fired"))
                  => CASE custom_repetition = "Never"    -> removed
                       [] custom_repetition = "EveryDay" -> kept(one_day_after(t.date))
                       [] custom_repetition = "Tomorrow" -> kept(one_day_after(now))
                       [] OTHER -> removed \/ kept(one_day_after(now)) ]_vars

\* C29, witness: the task of a lane of one Custom task, due after the start, has
\* been fired, and the fire pass, reading an instant after its due date, has set it
\* one day after that due date, as the handler "EveryDay" returned.
C29_Witness ==
    /\ custom_repetition = "EveryDay"
    /\ pc = "loop"
    /\ Len(fired) = 1
    /\ start_tasks[mode] = << ScheduledTask(1, Due(1), Custom) >>
    /\ before(Due(1), Local_now(clock))
    /\ scheduled_tasks[mode] = << ScheduledTask(1, one_day_after(Due(1)), Custom) >>

\* the position of the task of payload p in a vector that holds it once
PositionOf(s, p) == CHOOSE i \in DOMAIN s : s[i].task = p

\* the due dates of two tasks are the same instant
SameDueDate(a, b) == a.date.utc = b.date.utc /\ a.date.frac = b.date.frac

C31_NeverFiredEarly ==
    [][ (pc = "loop" /\ pc' = "fired")
        => LET task == scheduled_tasks[mode][1]
               made == fired'[Len(fired')]
           IN  /\ Len(fired') = Len(fired) + 1
               /\ made.task = task.task
               /\ made.date = task.date
               /\ made.at = clock'
               /\ ~before(Local_now(clock'), task.date) ]_vars

\* C31, witness: a task due after the start of the call, which the thread has
\* slept for, has been fired at an instant not before its due date.
C31_Witness ==
    /\ pc = "fired"
    /\ Len(fired) = 1
    /\ before(start_now, scheduled_tasks[mode][1].date)
    /\ fired[1].task = scheduled_tasks[mode][1].task
    /\ ~before(Local_now(fired[1].at), scheduled_tasks[mode][1].date)

\* the tasks of a vector that a pass can abort on for another reason than an
\* index: a Custom task without a handler, a count Finished(0)
AbortsOnItsOwn(t) ==
    \/ t.repetition.kind = "Custom"
    \/ t.repetition.kind \in Recurring /\ t.repetition.count.tag = "Finished"
           /\ t.repetition.count.n = 0

\* C32: a pass, the catch-up pass or the fire pass, over a lane none of whose
\* tasks makes it abort on its own does not abort: the indices the traversal goes
\* through after the removal of a task refer to elements of the vector, also when
\* every task of the lane is overdue.
C32_NoIndexOutOfRange ==
    [][ (PassStep /\ \A k \in DOMAIN scheduled_tasks[mode'] :
                        ~AbortsOnItsOwn(scheduled_tasks[mode'][k]))
        => pc' # "panicked" ]_vars

\* C33: a pass, the catch-up pass or the fire pass, that ends on a lane in
\* ascending order leaves every task whose due date is later than the instant it
\* read as now as it was: the task is in the lane after the pass with the same due
\* date and the same count, also when tasks of the overdue prefix have been
\* removed during the pass.
C33_NotOverdueUnchanged ==
    [][ (PassStep /\ pc' = "loop" /\ IsAscending(scheduled_tasks[mode']))
        => \A k \in DOMAIN scheduled_tasks[mode'] :
              before(Local_now(clock'), scheduled_tasks[mode'][k].date)
              => \E j \in DOMAIN scheduled_tasks'[mode'] :
                    scheduled_tasks'[mode'][j] = scheduled_tasks[mode'][k] ]_vars

\* the task of payload p as it was when the current call of start began
AtStart(p) == start_tasks[mode][PositionOf(start_tasks[mode], p)]

\* C34: between the passes of the run loop, the count of a counted task of the
\* lane has been decremented no more often than the callback has been invoked for
\* the task, as it must be if the two numbers are equal; and a task with
\* Finished(n) that was not overdue when start was called is in the removed
\* sequence only when its callback has been invoked n times.
C34_CountConsumedByOwnFirings ==
    pc = "loop"
    => /\ \A k \in DOMAIN scheduled_tasks[mode] :
             LET t == scheduled_tasks[mode][k]
             IN  t.repetition.count.tag = "Finished"
                 => AtStart(t.task).repetition.count.n - t.repetition.count.n
                       <= Cardinality(Invocations(t.task))
       /\ \A k \in DOMAIN rh_removed :
             LET s == AtStart(rh_removed[k].task)
             IN  (s.repetition.kind \in Recurring
                     /\ s.repetition.count.tag = "Finished"
                     /\ ~before(s.date, start_now))
                 => Cardinality(Invocations(s.task)) = s.repetition.count.n

\* C35: the fire pass that follows the invocation of a task's callback, when it
\* ends, has removed that task from the lane or has set its due date strictly
\* later than the date it was fired for, also when the pass reads the very
\* instant the task was due; and no task has been fired twice for one due date.
C35_FiredTaskMovesOn ==
    [][ /\ (pc = "fired" /\ pc' = "loop")
              => LET made == fired[Len(fired)]
                 IN  \A j \in DOMAIN scheduled_tasks'[mode] :
                        scheduled_tasks'[mode][j].task = made.task
                        => before(made.date, scheduled_tasks'[mode][j].date)
        /\ \A i, j \in DOMAIN fired' :
              (i < j /\ fired'[i].task = fired'[j].task)
              => fired'[i].date # fired'[j].date ]_vars

\* how many elements of a vector hold the payload p
Holds(s, p) == Cardinality({ i \in DOMAIN s : s[i].task = p })

\* C36: while start runs and after it has returned, with Ok or with an error,
\* every task the lane held when start was called is held exactly once by the
\* lane, the removed sequence of the reading handler and what the call has
\* appended to removed_tasks[mode] taken together.
C36_TasksConserved ==
    (mode \in DOMAIN scheduled_tasks /\ pc \in {"idle", "loop", "fired"})
    => \A p \in Payloads(start_tasks[mode]) :
          Holds(scheduled_tasks[mode], p) + Holds(rh_removed, p)
              + Holds(Appended(mode), p) = 1

\* C37: when update_weekly, update_monthly, update_yearly or update_const_gap with
\* a positive gap has been called, as a pass calls it, with a reference instant
\* later than the date, and has returned, the date it has set is strictly later
\* than the reference instant: the task is no longer overdue.
C37_AdvancedPastNow ==
    (updated.by # "none" /\ updated.ok /\ before(date0, origin)
        /\ (updated.by = "update_const_gap" => gap > 0))
    => before(origin, date)

\* C38: when the instant read at a peek of the run loop is strictly later than the
\* due date of the task at the head of the lane, start returns DateOutOfRange at
\* once: the callback is not invoked, and the lane, with the task at its head, is
\* left as it is.
C38_OverdueHeadIsAnError ==
    [][ (pc = "loop" /\ scheduled_tasks[mode] # <<>>
            /\ before(scheduled_tasks[mode][1].date, Local_now(clock')))
        => /\ pc' = "idle"
           /\ result' = "DateOutOfRange"
           /\ fired' = fired
           /\ scheduled_tasks' = scheduled_tasks ]_vars

\* C38, witness: start has returned DateOutOfRange at a peek that read an instant
\* later than the due date of the task at the head of the lane; the task is
\* there, and no callback has been invoked for it in this call.
C38_Witness ==
    /\ pc = "idle"
    /\ result = "DateOutOfRange"
    /\ scheduled_tasks[mode] # <<>>
    /\ before(scheduled_tasks[mode][1].date, Local_now(clock))
    /\ Invocations(scheduled_tasks[mode][1].task) = {}
    /\ scheduled_tasks[mode][1].task \in Payloads(start_tasks[mode])

\* C39: when update_monthly or update_yearly has returned, the date it has set
\* has the offset of the date it was given and the same local time of day.
C39_OffsetKept ==
    (updated.by \in {"update_monthly", "update_yearly"} /\ updated.ok)
    => /\ date.off = date0.off
       /\ hour(date) = hour(date0)
       /\ minute_second(date) = minute_second(date0)

====
